---- MODULE Spec2Model ----
(***************************************************************************)
(* Model of src/load.rs of rustc-perf: the record store (InputData), the   *)
(* pairwise comparator (Summary::compare_points) and the summary builder   *)
(* (Summary::new).                                                         *)
(*                                                                         *)
(* Dates are whole days (integers); a week is WeekLen days.  Pass times    *)
(* are small integers, on which f64 subtraction is exact.  A Rust panic    *)
(* (assert_eq!, expect) or an Err is a result record whose fail field      *)
(* holds the message; a value that was returned has fail = "".             *)
(* Option<T> is a sequence of length 0 (None) or 1 (Some).                 *)
(* A HashMap is a function; the order in which a HashMap<String, _> is     *)
(* iterated is not fixed by the code, and is an explicit parameter `ord`   *)
(* (a sequence of all group names) chosen nondeterministically.            *)
(* The BTreeMap<Commit, CommitData> is the sequence of its (key, value)    *)
(* entries in ascending key order, with at most one entry per key class    *)
(* of Ord for Commit.                                                      *)
(***************************************************************************)
EXTENDS Integers, Sequences, FiniteSets, TLC

VARIABLES
    data,        \* from_fs: the BTreeMap being filled / the store handed to InputData::new
    file_count,  \* from_fs: number of non-directory entries read
    skipped,     \* from_fs: number of entries skipped
    seen,        \* history: the commit dates of the records from_fs inserted
    pc,          \* position of the running procedure
    out,         \* result of InputData::new (first build)
    out2,        \* result of a second InputData::new over the same store
    a,           \* compare_points: argument a
    b,           \* compare_points: argument b
    cmp,         \* compare_points: result
    order        \* the HashMap iteration order the last call ran under

vars == <<data, file_count, skipped, seen, pc, out, out2, a, b, cmp, order>>

(***************************************************************************)
(* Program constants                                                       *)
(***************************************************************************)
WEEKS_IN_SUMMARY == 12

\* Duration::weeks(1), in days
WeekLen == 7

\* Duration::weeks(13): the look-back of the total window, in weeks
TotalWeeks == 13

(***************************************************************************)
(* Bounds of the model                                                     *)
(***************************************************************************)
\* number of directory entries from_fs reads
MaxFiles == 3

\* largest first-commit day of the 13-commit weekly scenario
MaxBase == 7

(***************************************************************************)
(* Small helpers                                                           *)
(***************************************************************************)
EmptyMap == [k \in {} |-> 0]

Put(m, k, v) == [y \in (DOMAIN m) \cup {k} |-> IF y = k THEN v ELSE m[y]]

Min(x, y) == IF x <= y THEN x ELSE y

NoResult == [fail |-> "not run"]

Panic(msg) == [fail |-> msg]

Returned(r) == r.fail = ""

(***************************************************************************)
(* Data model: Pass, Run, Patch, Commit, CommitData                        *)
(***************************************************************************)
Pass(name, time) == [name |-> name, time |-> time]

Run(name, passes) == [name |-> name, passes |-> passes]

Patch(patch, name, runs) == [patch |-> patch, name |-> name, runs |-> runs]

Commit(sha, date) == [sha |-> sha, date |-> date]

CommitData(commit, benchmarks) == [commit |-> commit, benchmarks |-> benchmarks]

\* variant: ordering by date, then sha
Commit_cmp_by_sha(x, y) ==
    IF x.date < y.date THEN "Less"
    ELSE IF x.date > y.date THEN "Greater"
    ELSE IF x.sha = y.sha THEN "Equal"
    ELSE IF x.sha = "s1" THEN "Less" ELSE "Greater"

\* impl Ord for Commit: by date alone
Commit_cmp(x, y) ==
    IF x.date < y.date THEN "Less"
    ELSE IF x.date > y.date THEN "Greater"
    ELSE "Equal"

\* Patch::full_name
full_name(patch) == patch.name \o patch.patch

\* Patch::run: the assertion, and the run returned when it holds
run_assert(patch) == Len(patch.runs) = 1

run(patch) == patch.runs[1]

\* Run::get_pass: the first pass of that name, as an Option
get_pass(r, pass) ==
    LET hits == SelectSeq(r.passes, LAMBDA p : p.name = pass)
    IN  IF hits = <<>> THEN <<>> ELSE <<hits[1]>>

\* iteration of a HashMap<String, Vec<Patch>> under the iteration order ord
GroupIter(benchmarks, ord) == SelectSeq(ord, LAMBDA g : g \in DOMAIN benchmarks)

(***************************************************************************)
(* Summary::compare_points                                                 *)
(***************************************************************************)
\* variant: no length assertion (zip pairs up to the shorter sequence)
len_assert_off(a_patches, b_patches) == TRUE

\* assert_eq!(a_patches.len(), b_patches.len())
len_assert(a_patches, b_patches) == Len(a_patches) = Len(b_patches)

\* assert_eq!(a_run.name, b_run.name)
name_assert(a_run, b_run) == a_run.name = b_run.name

\* b_run.get_pass(&a_pass.name).map(|p| p.time).unwrap_or(0.0)
b_time(b_run, pass) ==
    LET p == get_pass(b_run, pass) IN IF p = <<>> THEN 0 ELSE p[1].time

\* variant: a_t - b_t
delta_swapped(b_t, a_t) == a_t - b_t

\* b_t - a_t
delta(b_t, a_t) == b_t - a_t

\* by_crate.entry(run).or_insert_with(HashMap::new).insert(pass, d)
entry_insert(by_crate, run_name, pass_name, d) ==
    LET inner == IF run_name \in DOMAIN by_crate THEN by_crate[run_name] ELSE EmptyMap
    IN  Put(by_crate, run_name, Put(inner, pass_name, d))

\* for a_pass in &a_run.passes { ... }
RECURSIVE pass_loop(_, _, _, _)
pass_loop(by_crate, a_run, b_run, k) ==
    IF k > Len(a_run.passes) THEN by_crate
    ELSE LET a_pass == a_run.passes[k]
             a_t == a_pass.time
             b_t == b_time(b_run, a_pass.name)
         IN  pass_loop(entry_insert(by_crate, a_run.name, a_pass.name, delta(b_t, a_t)),
                       a_run, b_run, k + 1)

\* for (a_patch, b_patch) in a_patches.iter().zip(b_patches) { ... }
\* acc = [fail, by_crate]
RECURSIVE patch_loop(_, _, _, _)
patch_loop(acc, a_patches, b_patches, k) ==
    IF acc.fail # "" \/ k > Min(Len(a_patches), Len(b_patches)) THEN acc
    ELSE LET a_patch == a_patches[k]
             b_patch == b_patches[k]
         IN  IF ~run_assert(a_patch) \/ ~run_assert(b_patch)
             THEN [acc EXCEPT !.fail = "assert_eq runs.len"]
             ELSE IF ~name_assert(run(a_patch), run(b_patch))
             THEN [acc EXCEPT !.fail = "assert_eq run.name"]
             ELSE patch_loop(
                    [acc EXCEPT !.by_crate = pass_loop(@, run(a_patch), run(b_patch), 1)],
                    a_patches, b_patches, k + 1)

\* for (crate_name, patches) in &a.benchmarks { ... }
RECURSIVE group_loop(_, _, _, _, _)
group_loop(acc, x, y, groups, k) ==
    IF acc.fail # "" \/ k > Len(groups) THEN acc
    ELSE LET crate_name == groups[k]
         IN  IF crate_name \notin DOMAIN y.benchmarks
             THEN group_loop(acc, x, y, groups, k + 1)
             ELSE LET a_patches == x.benchmarks[crate_name]
                      b_patches == y.benchmarks[crate_name]
                  IN  IF ~len_assert(a_patches, b_patches)
                      THEN [acc EXCEPT !.fail = "assert_eq patches.len"]
                      ELSE group_loop(patch_loop(acc, a_patches, b_patches, 1),
                                      x, y, groups, k + 1)

compare_points(x, y, ord) ==
    LET acc == group_loop([fail |-> "", by_crate |-> EmptyMap], x, y,
                          GroupIter(x.benchmarks, ord), 1)
    IN  IF acc.fail # "" THEN Panic(acc.fail)
        ELSE [fail |-> "", a |-> x.commit, b |-> y.commit, by_crate |-> acc.by_crate]

(***************************************************************************)
(* The store: BTreeMap<Commit, CommitData>                                 *)
(***************************************************************************)
\* BTreeMap::insert under Ord for Commit: an equal key keeps the stored key and
\* replaces the value; a new key is placed in key order
insert(map, k, v) ==
    LET same == {i \in 1..Len(map) : Commit_cmp(map[i].key, k) = "Equal"}
        less == {i \in 1..Len(map) : Commit_cmp(map[i].key, k) = "Less"}
        n    == Cardinality(less)
    IN  IF same # {}
        THEN [i \in 1..Len(map) |-> IF i \in same THEN [map[i] EXCEPT !.val = v] ELSE map[i]]
        ELSE SubSeq(map, 1, n) \o <<[key |-> k, val |-> v]>> \o SubSeq(map, n + 1, Len(map))

\* util::data_range: the entries with start <= date < end, ascending
data_range(map, start, end) ==
    SelectSeq(map, LAMBDA e : start <= e.key.date /\ e.key.date < end)

\* Date::start_of_week: the first day of the week the date lies in
start_of_week(d) == d - (d % WeekLen)

\* Iterator::next / DoubleEndedIterator::next_back on a fresh range
first_of(week) == IF week = <<>> THEN <<>> ELSE <<week[1]>>

last_of(week) == IF week = <<>> THEN <<>> ELSE <<week[Len(week)]>>

(***************************************************************************)
(* Summary::new                                                            *)
(***************************************************************************)
\* variant: the windows taken oldest first
week_start_reversed(last_date, i) ==
    start_of_week(last_date) - ((WEEKS_IN_SUMMARY - 1 - i) * WeekLen)

\* last_date.start_of_week() - Duration::weeks(i)
week_start(last_date, i) == start_of_week(last_date) - (i * WeekLen)

\* start + Duration::weeks(1)
week_end(start) == start + WeekLen

\* last_date.start_of_week() - Duration::weeks(13)
total_start(last_date) == start_of_week(last_date) - (TotalWeeks * WeekLen)

\* variant: the total window ends at last_date, exclusive
total_end_exclusive(last_date) == last_date

\* last_date + Duration::weeks(1)
total_end(last_date) == last_date + WeekLen

\* for i in 0..WEEKS_IN_SUMMARY { ... }; acc = [fail, weeks]
RECURSIVE week_loop(_, _, _, _, _)
week_loop(acc, map, last_date, ord, i) ==
    IF acc.fail # "" \/ i >= WEEKS_IN_SUMMARY THEN acc
    ELSE LET start == week_start(last_date, i)
             end   == week_end(start)
             week  == data_range(map, start, end)
             first == first_of(week)
             last  == last_of(week)
         IN  IF first # <<>> /\ last # <<>>
             THEN LET c == compare_points(first[1].val, last[1].val, ord)
                  IN  IF c.fail # "" THEN [acc EXCEPT !.fail = c.fail]
                      ELSE week_loop([acc EXCEPT !.weeks = Append(@, c)],
                                     map, last_date, ord, i + 1)
             ELSE week_loop(acc, map, last_date, ord, i + 1)

\* let totals = { ... }
totals_of(map, last_date, ord) ==
    LET start == total_start(last_date)
        end   == total_end(last_date)
        week  == data_range(map, start, end)
    IN  IF first_of(week) = <<>> THEN Panic("first commit exists")
        ELSE IF last_of(week) = <<>> THEN Panic("last commit exists")
        ELSE compare_points(first_of(week)[1].val, last_of(week)[1].val, ord)

Summary_new(map, last_date, ord) ==
    LET acc == week_loop([fail |-> "", weeks |-> <<>>], map, last_date, ord, 0)
    IN  IF acc.fail # "" THEN Panic(acc.fail)
        ELSE LET totals == totals_of(map, last_date, ord)
             IN  IF totals.fail # "" THEN Panic(totals.fail)
                 ELSE [fail |-> "", total |-> totals, comparisons |-> acc.weeks]

(***************************************************************************)
(* InputData::new                                                          *)
(***************************************************************************)
\* run.benchmarks.values().flat_map(|x| x), as the set of patches visited
patches_of(cd) ==
    UNION {{cd.benchmarks[g][i] : i \in 1..Len(cd.benchmarks[g])} : g \in DOMAIN cd.benchmarks}

\* variant: the comparison turned round (keeps the earliest date)
last_date_step_min(last_date, date) ==
    IF last_date = <<>> \/ last_date[1] > date THEN <<date>> ELSE last_date

\* if last_date.is_none() || last_date.as_ref().unwrap() < &run.commit.date
last_date_step(last_date, date) ==
    IF last_date = <<>> \/ last_date[1] < date THEN <<date>> ELSE last_date

\* for run in data.values() { ... }; acc = [fail, last_date, phase_list, crate_list]
RECURSIVE index_loop(_, _, _)
index_loop(acc, map, k) ==
    IF acc.fail # "" \/ k > Len(map) THEN acc
    ELSE LET r  == map[k].val
             ps == patches_of(r)
         IN  IF \E p \in ps : ~run_assert(p)
             THEN [acc EXCEPT !.fail = "assert_eq runs.len"]
             ELSE index_loop(
                    [fail       |-> "",
                     last_date  |-> last_date_step(acc.last_date, r.commit.date),
                     crate_list |-> acc.crate_list \cup {full_name(p) : p \in ps},
                     phase_list |-> acc.phase_list \cup
                        UNION {{run(p).passes[j].name : j \in 1..Len(run(p).passes)} : p \in ps}],
                    map, k + 1)

InputData_new(map, ord) ==
    LET acc == index_loop([fail |-> "", last_date |-> <<>>,
                           crate_list |-> {}, phase_list |-> {}], map, 1)
    IN  IF acc.fail # "" THEN Panic(acc.fail)
        ELSE IF acc.last_date = <<>> THEN Panic("No dates found")
        ELSE LET last_date == acc.last_date[1]
                 summary   == Summary_new(map, last_date, ord)
             IN  IF summary.fail # "" THEN Panic(summary.fail)
                 ELSE [fail |-> "", summary |-> summary, crate_list |-> acc.crate_list,
                       phase_list |-> acc.phase_list, last_date |-> last_date, data |-> map]

(***************************************************************************)
(* Inputs                                                                  *)
(***************************************************************************)
Shas == {"s1", "s2"}

Groups == {"g1", "g2"}

\* the orders in which a HashMap over Groups can be iterated
Orders == {<<"g1", "g2">>, <<"g2", "g1">>}

\* days 0, 6 (week 0), 7 (week 1), 98, 104 (week 14), 105 (week 15): both ends of
\* a week, adjacent weeks, and weeks 13 and more apart
Dates == {0, 6, 7, 98, 104, 105}

OnePass(t) == <<Run("r", <<Pass("p", t)>>)>>

\* benchmark maps: well-formed ones, and ones that differ in the number of
\* patches, the run name, the number of runs, the passes and the groups
BmOk == "g1" :> <<Patch("", "c", OnePass(1))>>

BmLong == "g1" :> <<Patch("", "c", OnePass(3)), Patch("x", "c", <<Run("r2", <<Pass("p", 1)>>)>>)>>

BmRenamed == "g1" :> <<Patch("", "c", <<Run("q", <<Pass("p", 2)>>)>>)>>

BmNoRun == "g1" :> <<Patch("", "c", <<>>)>>

BmTwoPass == "g1" :> <<Patch("", "c", <<Run("r", <<Pass("p", 3), Pass("q", 2)>>)>>)>>

BmDupPass == "g1" :> <<Patch("", "c", <<Run("r", <<Pass("p", 1), Pass("p", 2)>>)>>)>>

BmSharedRun == ("g1" :> <<Patch("", "c", OnePass(1))>>) @@ ("g2" :> <<Patch("", "d", OnePass(5))>>)

BmSharedRunLater == ("g1" :> <<Patch("", "c", OnePass(2))>>) @@ ("g2" :> <<Patch("", "d", OnePass(8))>>)

BmTwoGroups ==
    ("g1" :> <<Patch("", "c", OnePass(2))>>)
    @@ ("g2" :> <<Patch("", "d", <<Run("s", <<Pass("p", 4)>>)>>)>>)

BmSameRunTwice == "g1" :> <<Patch("", "c", OnePass(1)), Patch("x", "c", OnePass(4))>>

BmOtherGroup == "g2" :> <<Patch("", "d", <<Run("r", <<Pass("q", 7)>>)>>)>>

BmNoPass == "g1" :> <<Patch("", "c", <<Run("r", <<>>)>>)>>

BmTwoRuns == "g1" :> <<Patch("", "c", <<Run("r", <<Pass("p", 1)>>), Run("r", <<Pass("p", 2)>>)>>)>>

\* the benchmark maps of the records from_fs reads
FsBenchmarks == {BmOk, BmLong, BmRenamed, BmNoRun, BmSharedRun}

Records == {CommitData(Commit(s, d), bm) : s \in Shas, d \in Dates, bm \in FsBenchmarks}

(***************************************************************************)
(* InputData::from_fs: one action per path through the read_dir loop body  *)
(***************************************************************************)
Init ==
    /\ data = <<>>
    /\ file_count = 0
    /\ skipped = 0
    /\ seen = {}
    /\ pc = "from_fs"
    /\ out = NoResult
    /\ out2 = NoResult
    /\ a = <<>>
    /\ b = <<>>
    /\ cmp = NoResult
    /\ order = <<>>

\* entry.file_type()?.is_dir(): continue
ReadDir ==
    /\ pc = "from_fs"
    /\ UNCHANGED vars

\* an entry whose file_type, open or read fails: `?` returns the Err
ReadIoError ==
    /\ pc = "from_fs"
    /\ pc' = "done"
    /\ out' = Panic("Err: io")
    /\ UNCHANGED <<data, file_count, skipped, seen, out2, a, b, cmp, order>>

\* a file of size 0
ReadEmptyFile ==
    /\ pc = "from_fs"
    /\ file_count < MaxFiles
    /\ file_count' = file_count + 1
    /\ skipped' = skipped + 1
    /\ UNCHANGED <<data, seen, pc, out, out2, a, b, cmp, order>>

\* a file serde_json cannot parse as CommitData
ReadBadJson ==
    /\ pc = "from_fs"
    /\ file_count < MaxFiles
    /\ file_count' = file_count + 1
    /\ skipped' = skipped + 1
    /\ UNCHANGED <<data, seen, pc, out, out2, a, b, cmp, order>>

\* contents.benchmarks.is_empty()
ReadEmptyBenchmarks ==
    /\ pc = "from_fs"
    /\ file_count < MaxFiles
    /\ file_count' = file_count + 1
    /\ skipped' = skipped + 1
    /\ UNCHANGED <<data, seen, pc, out, out2, a, b, cmp, order>>

\* data.insert(contents.commit.clone(), contents)
ReadRecord ==
    /\ pc = "from_fs"
    /\ file_count < MaxFiles
    /\ \E contents \in Records :
          /\ data' = insert(data, contents.commit, contents)
          /\ seen' = seen \cup {contents.commit.date}
    /\ file_count' = file_count + 1
    /\ UNCHANGED <<skipped, pc, out, out2, a, b, cmp, order>>

\* InputData::new(data), after the last directory entry
CallNew ==
    /\ pc = "from_fs"
    /\ \E ord \in Orders :
          /\ order' = ord
          /\ out' = InputData_new(data, ord)
    /\ pc' = "done"
    /\ UNCHANGED <<data, file_count, skipped, seen, out2, a, b, cmp>>

Next ==
    \/ ReadDir
    \/ ReadIoError
    \/ ReadEmptyFile
    \/ ReadBadJson
    \/ ReadEmptyBenchmarks
    \/ ReadRecord
    \/ CallNew

Spec == Init /\ [][Next]_vars

(***************************************************************************)
(* Vocabulary of the properties                                            *)
(***************************************************************************)
\* InputData::new ran (from_fs did not return an io Err before calling it)
NewRan == pc = "done" /\ out.fail # "Err: io"

StoreDates == {data[i].key.date : i \in 1..Len(data)}

MaxStoreDate == CHOOSE d \in StoreDates : \A e \in StoreDates : e <= d

\* the stored records whose date lies in [lo, hi)
InRange(lo, hi) == {i \in 1..Len(data) : lo <= data[i].key.date /\ data[i].key.date < hi}

\* weekly window i of the reference date last: [lo, lo + 1 week)
WindowLo(last, i) == (last - (last % WeekLen)) - i * WeekLen

InWindow(d, last, i) == WindowLo(last, i) <= d /\ d < WindowLo(last, i) + WeekLen

WindowRecords(last, i) == InRange(WindowLo(last, i), WindowLo(last, i) + WeekLen)

Earliest(S) == CHOOSE i \in S : \A j \in S : data[i].key.date <= data[j].key.date

Latest(S) == CHOOSE i \in S : \A j \in S : data[j].key.date <= data[i].key.date

\* the pairs of records a Summary over the store compares: the earliest and the
\* latest record of every non-empty weekly window and of the total window
ComparedPairs ==
    LET last == MaxStoreDate
        tot  == InRange(WindowLo(last, TotalWeeks), last + WeekLen)
    IN  {<<data[Earliest(WindowRecords(last, i))].val, data[Latest(WindowRecords(last, i))].val>> :
            i \in {w \in 0..(WEEKS_IN_SUMMARY - 1) : WindowRecords(last, w) # {}}}
        \cup {<<data[Earliest(tot)].val, data[Latest(tot)].val>> : z \in {0}}

\* some patch of the record does not hold exactly one run
BadRuns(cd) ==
    \E g \in DOMAIN cd.benchmarks : \E k \in 1..Len(cd.benchmarks[g]) :
        Len(cd.benchmarks[g][k].runs) # 1

\* a group of both records has patch sequences of different lengths, or
\* positionally paired runs of different names
Mismatch(x, y) ==
    \E g \in (DOMAIN x.benchmarks) \cap (DOMAIN y.benchmarks) :
        \/ Len(x.benchmarks[g]) # Len(y.benchmarks[g])
        \/ \E k \in 1..Len(x.benchmarks[g]) :
              /\ k <= Len(y.benchmarks[g])
              /\ Len(x.benchmarks[g][k].runs) = 1
              /\ Len(y.benchmarks[g][k].runs) = 1
              /\ x.benchmarks[g][k].runs[1].name # y.benchmarks[g][k].runs[1].name

(***************************************************************************)
(* C10: the store holds exactly one entry per distinct commit date         *)
(***************************************************************************)
\* C10: after any sequence of inserts by from_fs, every inserted date has exactly
\* one entry, every entry's key date is the commit date of its data and was
\* inserted, the entries are in ascending date order, and there are as many
\* entries as distinct dates inserted (a record of an already stored date
\* replaced the data and kept the key).
C10_OneEntryPerDate ==
    /\ \A d \in seen : Cardinality({i \in 1..Len(data) : data[i].key.date = d}) = 1
    /\ \A i \in 1..Len(data) :
          /\ data[i].key.date = data[i].val.commit.date
          /\ data[i].key.date \in seen
    /\ \A i \in 1..(Len(data) - 1) : data[i].key.date < data[i + 1].key.date
    /\ Len(data) = Cardinality(seen)
    /\ Len(data) <= file_count - skipped

\* a record replaced the data of a stored record of the same date and another sha
C10_Witness ==
    \E i \in 1..Len(data) : data[i].key.sha # data[i].val.commit.sha

(***************************************************************************)
(* C9: the total window of a build through InputData::new                  *)
(***************************************************************************)
\* C9: when InputData::new ran on a non-empty store, the total window
\* [start_of_week(last_date) - 13 weeks, last_date + 1 week) holds the record
\* dated last_date = the maximum stored date, neither expectation of the total
\* comparison fails, and a returned total has b = the record dated last_date and
\* a = the earliest stored record dated on or after the window's start.
C9_TotalWindow ==
    (NewRan /\ data # <<>>) =>
        LET last == MaxStoreDate
            lo   == (last - (last % WeekLen)) - TotalWeeks * WeekLen
            tot  == InRange(lo, last + WeekLen)
        IN  /\ \E i \in tot : data[i].val.commit.date = last
            /\ out.fail \notin {"first commit exists", "last commit exists", "No dates found"}
            /\ Returned(out) =>
                  /\ out.last_date = last
                  /\ out.summary.total.b = data[Latest(tot)].val.commit
                  /\ out.summary.total.b.date = last
                  /\ out.summary.total.a = data[Earliest(tot)].val.commit
                  /\ \A i \in 1..Len(data) :
                        data[i].key.date < out.summary.total.a.date => data[i].key.date < lo

\* a build whose store holds a record older than the total window, and whose
\* total compares two different records
C9_Witness ==
    /\ NewRan /\ Returned(out)
    /\ data[1].key.date < WindowLo(out.last_date, TotalWeeks)
    /\ out.summary.total.a.date < out.summary.total.b.date

(***************************************************************************)
(* C8: order of the weekly comparisons                                     *)
(***************************************************************************)
\* C8: in a returned Summary every weekly comparison has a.date <= b.date with
\* both dates inside one of the 12 weekly windows, each comparison lies strictly
\* before its predecessor in the sequence (most recent window first), and the
\* sequence holds one comparison per non-empty weekly window and nothing else
\* (the total is stored apart from it).
C8_WeeklyOrder ==
    (NewRan /\ Returned(out)) =>
        LET cs   == out.summary.comparisons
            last == out.last_date
            full == {i \in 0..(WEEKS_IN_SUMMARY - 1) : WindowRecords(last, i) # {}}
        IN  /\ \A j \in 1..Len(cs) :
                  /\ cs[j].a.date <= cs[j].b.date
                  /\ \E i \in full :
                        /\ InWindow(cs[j].a.date, last, i)
                        /\ InWindow(cs[j].b.date, last, i)
                        /\ Cardinality({w \in full : w < i}) = j - 1
            /\ \A j \in 1..(Len(cs) - 1) : cs[j + 1].b.date < cs[j].a.date
            /\ Len(cs) = Cardinality(full)

\* a Summary with two weekly comparisons, one of them between different records
C8_Witness ==
    /\ NewRan /\ Returned(out)
    /\ Len(out.summary.comparisons) >= 2
    /\ \E j \in 1..Len(out.summary.comparisons) :
          out.summary.comparisons[j].a.date < out.summary.comparisons[j].b.date

(***************************************************************************)
(* C7: mismatched commits abort the build                                  *)
(***************************************************************************)
\* C7: when two records the Summary compares have, for a shared group, patch
\* sequences of different lengths or positionally paired runs of different
\* names, InputData::new aborts: its result holds a failure and no summary,
\* index or store.
C7_MismatchAborts ==
    (NewRan /\ data # <<>> /\ \E pr \in ComparedPairs : Mismatch(pr[1], pr[2])) =>
        /\ ~Returned(out)
        /\ DOMAIN out = {"fail"}

\* a build that aborted on the length assertion of compare_points
C7_Witness ==
    /\ NewRan
    /\ out.fail = "assert_eq patches.len"
    /\ \E pr \in ComparedPairs : Mismatch(pr[1], pr[2])

(***************************************************************************)
(* C3: InputData::new on a non-empty store                                 *)
(***************************************************************************)
\* C3 as stated: on every non-empty store InputData::new succeeds and last_date
\* is the maximum commit date.
C3_AlwaysSucceeds ==
    (NewRan /\ data # <<>>) =>
        /\ Returned(out)
        /\ out.last_date = MaxStoreDate

\* C3 amended: on a non-empty store InputData::new aborts exactly when some
\* patch does not hold exactly one run or two records the Summary compares are
\* mismatched; otherwise it succeeds, last_date is the maximum commit date and
\* the store is returned unchanged.
C3_SucceedsUnlessAssert ==
    (NewRan /\ data # <<>>) =>
        /\ ~Returned(out) <=>
              \/ \E i \in 1..Len(data) : BadRuns(data[i].val)
              \/ \E pr \in ComparedPairs : Mismatch(pr[1], pr[2])
        /\ ~Returned(out) =>
              out.fail \in {"assert_eq runs.len", "assert_eq patches.len", "assert_eq run.name"}
        /\ Returned(out) =>
              /\ out.last_date = MaxStoreDate
              /\ out.data = data

\* a successful build over records of three different dates
C3_Witness ==
    /\ NewRan /\ Returned(out)
    /\ Len(data) >= 3
    /\ out.last_date = data[Len(data)].val.commit.date

(***************************************************************************)
(* C1: weekly windows with fewer than two records                          *)
(***************************************************************************)
\* C1 as stated: a returned Summary has at most 12 weekly comparisons and one
\* total comparison, and a weekly window holding zero or exactly one record
\* contributes no comparison.
C1_SparseWindowOmitted ==
    (NewRan /\ Returned(out)) =>
        LET cs   == out.summary.comparisons
            last == out.last_date
        IN  /\ Len(cs) <= WEEKS_IN_SUMMARY
            /\ Returned(out.summary.total)
            /\ \A i \in 0..(WEEKS_IN_SUMMARY - 1) :
                  Cardinality(WindowRecords(last, i)) <= 1 =>
                      ~\E j \in 1..Len(cs) : InWindow(cs[j].a.date, last, i)

(***************************************************************************)
(* compare_points as a pure function: SpecCmp                              *)
(***************************************************************************)
CmpBenchmarks ==
    {BmOk, BmLong, BmRenamed, BmNoRun, BmTwoPass, BmDupPass, BmSharedRun, BmSharedRunLater,
     BmTwoGroups, BmSameRunTwice, BmOtherGroup, BmNoPass, BmTwoRuns}

CmpInputs == {CommitData(c, bm) : c \in {Commit("s1", 0), Commit("s2", 6)}, bm \in CmpBenchmarks}

InitCmp ==
    /\ data = <<>>
    /\ file_count = 0
    /\ skipped = 0
    /\ seen = {}
    /\ pc = "compare"
    /\ out = NoResult
    /\ out2 = NoResult
    /\ a \in CmpInputs
    /\ b \in CmpInputs
    /\ cmp = NoResult
    /\ order = <<>>

\* Summary::compare_points(a, b)
Compare ==
    /\ pc = "compare"
    /\ \E ord \in Orders :
          /\ order' = ord
          /\ cmp' = compare_points(a, b, ord)
    /\ pc' = "compared"
    /\ UNCHANGED <<data, file_count, skipped, seen, out, out2, a, b>>

NextCmp == Compare

SpecCmp == InitCmp /\ [][NextCmp]_vars

(***************************************************************************)
(* Two builds over one store: SpecDet                                      *)
(***************************************************************************)
DetBenchmarks == {BmOk, BmSharedRun, BmSharedRunLater, BmTwoGroups, BmSameRunTwice}

DetRecords == {CommitData(Commit("s1", d), bm) : d \in {0, 6, 7}, bm \in DetBenchmarks}

DetStores ==
    {insert(insert(<<>>, r1.commit, r1), r2.commit, r2) : r1 \in DetRecords, r2 \in DetRecords}

InitDet ==
    /\ data \in DetStores
    /\ file_count = 2
    /\ skipped = 0
    /\ seen = {data[i].key.date : i \in 1..Len(data)}
    /\ pc = "build"
    /\ out = NoResult
    /\ out2 = NoResult
    /\ a = <<>>
    /\ b = <<>>
    /\ cmp = NoResult
    /\ order = <<>>

\* InputData::new(data), a first time
Build ==
    /\ pc = "build"
    /\ \E ord \in Orders :
          /\ order' = ord
          /\ out' = InputData_new(data, ord)
    /\ pc' = "rebuild"
    /\ UNCHANGED <<data, file_count, skipped, seen, out2, a, b, cmp>>

\* InputData::new(data), again, over the same records
Rebuild ==
    /\ pc = "rebuild"
    /\ \E ord \in Orders :
          /\ order' = ord
          /\ out2' = InputData_new(data, ord)
    /\ pc' = "built"
    /\ UNCHANGED <<data, file_count, skipped, seen, out, a, b, cmp>>

NextDet == Build \/ Rebuild

SpecDet == InitDet /\ [][NextDet]_vars

(***************************************************************************)
(* Thirteen commits one week apart: SpecScenario                           *)
(***************************************************************************)
\* one commit more than there are weekly windows
ScenarioCommits == WEEKS_IN_SUMMARY + 1

ScenarioTimes == {1, 5}

ScenarioRecord(date, time) ==
    CommitData(Commit("s1", date), "g1" :> <<Patch("", "c", OnePass(time))>>)

\* the first commit: any day 0..MaxBase, any first time
ScenarioFirst ==
    /\ pc = "from_fs"
    /\ data = <<>>
    /\ \E d0 \in 0..MaxBase, t0 \in ScenarioTimes :
          /\ data' = insert(data, Commit("s1", d0), ScenarioRecord(d0, t0))
          /\ seen' = {d0}
    /\ file_count' = file_count + 1
    /\ UNCHANGED <<skipped, pc, out, out2, a, b, cmp, order>>

\* the next commit: one week later, its pass one time unit slower
ScenarioNext ==
    /\ pc = "from_fs"
    /\ data # <<>>
    /\ Len(data) < ScenarioCommits
    /\ LET prev == data[Len(data)].val
            date == prev.commit.date + WeekLen
            time == prev.benchmarks["g1"][1].runs[1].passes[1].time + 1
        IN  /\ data' = insert(data, Commit("s1", date), ScenarioRecord(date, time))
            /\ seen' = seen \cup {date}
    /\ file_count' = file_count + 1
    /\ UNCHANGED <<skipped, pc, out, out2, a, b, cmp, order>>

\* InputData::new(data) over the thirteen commits
ScenarioNew ==
    /\ pc = "from_fs"
    /\ Len(data) = ScenarioCommits
    /\ \E ord \in Orders :
          /\ order' = ord
          /\ out' = InputData_new(data, ord)
    /\ pc' = "done"
    /\ UNCHANGED <<data, file_count, skipped, seen, out2, a, b, cmp>>

NextScenario == ScenarioFirst \/ ScenarioNext \/ ScenarioNew

SpecScenario == Init /\ [][NextScenario]_vars

(***************************************************************************)
(* Vocabulary of the compare_points properties                             *)
(***************************************************************************)
\* the writes of compare_points(a, b) under the iteration order `order`: <<gi, k, j>>
\* is pass j of the run of patch k of the gi-th group of a iterated, for the
\* groups b holds too
Writers ==
    LET groups == GroupIter(a.benchmarks, order)
        shared == {gi \in 1..Len(groups) : groups[gi] \in DOMAIN b.benchmarks}
    IN  UNION {UNION {{<<gi, k, j>> :
                          j \in 1..Len(a.benchmarks[groups[gi]][k].runs[1].passes)} :
                      k \in 1..Len(a.benchmarks[groups[gi]])} :
               gi \in shared}

WGroup(w) == GroupIter(a.benchmarks, order)[w[1]]

WRunA(w) == a.benchmarks[WGroup(w)][w[2]].runs[1]

WRunB(w) == b.benchmarks[WGroup(w)][w[2]].runs[1]

WPass(w) == WRunA(w).passes[w[3]]

\* the time of the first pass of that name in the run, 0 when there is none
FirstTime(r, name) ==
    LET hits == {j \in 1..Len(r.passes) : r.passes[j].name = name}
    IN  IF hits = {} THEN 0
        ELSE r.passes[CHOOSE j \in hits : \A h \in hits : j <= h].time

\* b's time minus a's time for the write w
WDelta(w) == FirstTime(WRunB(w), WPass(w).name) - WPass(w).time

SameKey(w, v) == WRunA(w).name = WRunA(v).name /\ WPass(w).name = WPass(v).name

\* v writes after w
Later(w, v) ==
    \/ w[1] < v[1]
    \/ w[1] = v[1] /\ w[2] < v[2]
    \/ w[1] = v[1] /\ w[2] = v[2] /\ w[3] < v[3]

Recorded(w) ==
    /\ WRunA(w).name \in DOMAIN cmp.by_crate
    /\ WPass(w).name \in DOMAIN cmp.by_crate[WRunA(w).name]

\* every delta of the comparison was written by some pass of a in a shared group
OnlyWritten ==
    \A rn \in DOMAIN cmp.by_crate : \A pn \in DOMAIN cmp.by_crate[rn] :
        \E w \in Writers : WRunA(w).name = rn /\ WPass(w).name = pn

UniquePassNames(cd) ==
    \A g \in DOMAIN cd.benchmarks : \A k \in 1..Len(cd.benchmarks[g]) :
        \A r \in {cd.benchmarks[g][k].runs[n] : n \in 1..Len(cd.benchmarks[g][k].runs)} :
            \A i, j \in 1..Len(r.passes) : r.passes[i].name = r.passes[j].name => i = j

(***************************************************************************)
(* C6: the deltas of compare_points                                        *)
(***************************************************************************)
\* C6 as stated: with pass names unique within every run of a, every pass p of
\* a's run in a group of both records has, under [run name][p.name], the delta
\* b's first p.name time (0 when b's run has none) minus a's time, and nothing
\* else is recorded.
C6_EveryPassRecorded ==
    (pc = "compared" /\ Returned(cmp) /\ UniquePassNames(a)) =>
        /\ \A w \in Writers :
              /\ Recorded(w)
              /\ cmp.by_crate[WRunA(w).name][WPass(w).name] = WDelta(w)
        /\ OnlyWritten

\* C6 amended: every pass p of a's run in a group of both records has a delta
\* under [run name][p.name]; it is b's first p.name time (0 when b's run has
\* none) minus a's time unless a pass iterated later writes the same
\* [run name][pass name], the last such write being the one recorded; nothing
\* is recorded for groups absent from b or passes only b has.
C6_LastWriteRecorded ==
    (pc = "compared" /\ Returned(cmp)) =>
        /\ \A w \in Writers :
              /\ Recorded(w)
              /\ (~\E v \in Writers : SameKey(w, v) /\ Later(w, v)) =>
                    cmp.by_crate[WRunA(w).name][WPass(w).name] = WDelta(w)
        /\ OnlyWritten
        /\ cmp.a = a.commit
        /\ cmp.b = b.commit

\* a comparison in which a later patch overwrote another delta, b lacks a
\* pass of a, or a group of a is absent from b
C6_Witness ==
    /\ pc = "compared" /\ Returned(cmp)
    /\ \E w, v \in Writers : SameKey(w, v) /\ Later(w, v) /\ WDelta(w) # WDelta(v)

\* a comparison that recorded 0 - a's time for a pass b's run lacks
C6_WitnessMissingPass ==
    /\ pc = "compared" /\ Returned(cmp)
    /\ \E w \in Writers :
          /\ \A j \in 1..Len(WRunB(w).passes) : WRunB(w).passes[j].name # WPass(w).name
          /\ cmp.by_crate[WRunA(w).name][WPass(w).name] = 0 - WPass(w).time

(***************************************************************************)
(* C2: a record compared with itself                                       *)
(***************************************************************************)
\* C2 as stated: for a record x whose patches each hold exactly one run,
\* compare_points(x, x) returns a Comparison whose every delta is 0.
C2_SelfDeltaZero ==
    (pc = "compared" /\ a = b /\ ~BadRuns(a)) =>
        /\ Returned(cmp)
        /\ \A rn \in DOMAIN cmp.by_crate : \A pn \in DOMAIN cmp.by_crate[rn] :
              cmp.by_crate[rn][pn] = 0

(***************************************************************************)
(* C4: the Summary as a function of the store                              *)
(***************************************************************************)
\* C4 as stated: two builds over the same store return the same total and
\* weekly by_crate mappings, whatever order the groups are iterated in.
C4_SameSummary ==
    (pc = "built" /\ Returned(out) /\ Returned(out2)) =>
        /\ out.summary.total.by_crate = out2.summary.total.by_crate
        /\ Len(out.summary.comparisons) = Len(out2.summary.comparisons)
        /\ \A j \in 1..Len(out.summary.comparisons) :
              out.summary.comparisons[j].by_crate = out2.summary.comparisons[j].by_crate

(***************************************************************************)
(* C5: thirteen commits one week apart                                     *)
(***************************************************************************)
Abs(n) == IF n < 0 THEN 0 - n ELSE n

\* C5 as stated: the build over the thirteen commits returns a Summary whose
\* total delta of the pass has magnitude 12 and whose weekly comparisons each
\* show a delta of magnitude 1 for the pass.
C5_WeeklyDeltaOne ==
    (pc = "done" /\ Len(data) = ScenarioCommits) =>
        /\ Returned(out)
        /\ Abs(out.summary.total.by_crate["r"]["p"]) = ScenarioCommits - 1
        /\ \A j \in 1..Len(out.summary.comparisons) :
              Abs(out.summary.comparisons[j].by_crate["r"]["p"]) = 1

\* what the build over the thirteen commits does return: a total delta of +12,
\* and 12 weekly comparisons, each of one commit with itself, of delta 0
C5_Observed ==
    (pc = "done" /\ Len(data) = ScenarioCommits) =>
        /\ Returned(out)
        /\ out.summary.total.by_crate["r"]["p"] = ScenarioCommits - 1
        /\ Len(out.summary.comparisons) = WEEKS_IN_SUMMARY
        /\ \A j \in 1..Len(out.summary.comparisons) :
              /\ out.summary.comparisons[j].a = out.summary.comparisons[j].b
              /\ out.summary.comparisons[j].by_crate["r"]["p"] = 0

====
